---- MODULE Spec2Model ----
(***************************************************************************)
(* Verification model of the data-ingestion pipeline of the Amazon seller  *)
(* dashboard: the token-bucket rate limiters, the LWA token cache, the     *)
(* sales normalisation of SPAPIClient.getSalesData and the cron ingestion  *)
(* handlers (sales and ads).                                               *)
(*                                                                         *)
(* Each subsystem has its own specification over the shared variables:     *)
(*   SpecLimiter / SpecLimiterFair  the RateLimiter classes                *)
(*   SpecToken                      SPAPIClient.getLWAAccessToken          *)
(*   SpecSales                      SPAPIClient.getSalesData               *)
(*   Spec                           the two cron handlers                  *)
(* A specification leaves the variables of the other subsystems at their   *)
(* idle values.                                                            *)
(***************************************************************************)
EXTENDS Integers, Sequences, FiniteSets, TLC

VARIABLES
    now,                \* Date.now(), in milliseconds
    \* ---- RateLimiter ----
    variant,            \* which RateLimiter class: "sp" (lib/spApiClient.js) or "ads" (cron/ingest-ads.js)
    requestsPerSecond,  \* this.requestsPerSecond
    maxBurst,           \* this.maxBurst (this.maxBurstSize in the ads class)
    tokens,             \* this.tokens, in thousandths of a token
    lastRefill,         \* this.lastRefill
    active,             \* how many callers use the limiter instance
    callers,            \* per caller: where its waitForToken() call stands
    hist,               \* the waitForToken() calls that returned: <<calledAt, timer due, returnedAt>>
    probe,              \* what the last hasTokens()/getTokenCount() returned
    \* ---- access-token cache ----
    client,             \* which client class holds the cache: "sp", "adsLib" or "adsCron"
    creds,              \* which of config.clientId / clientSecret / refreshToken are set
    cache,              \* the cached token: << >> or <<[token, expires, nan, at, expiresIn]>>
    reqs,               \* per caller: where its token request stands and what it got
    posts,              \* number of POSTs sent to the token endpoint
    issued,             \* number of tokens the endpoint issued; token n is the n-th one
    \* ---- SPAPIClient.getSalesData ----
    salesPc,            \* "ready", "awaiting" (the request is in flight) or "done"
    hasClientId,        \* whether config.clientId is set
    response,           \* what the upstream answers to GET /sales/v1/orderMetrics
    result,             \* what getSalesData returned or threw
    \* ---- one invocation of a cron handler ----
    kind,               \* which trigger: "sales" (ingest-sales.js) or "ads" (ingest-ads.js)
    cronSecretEnv,      \* process.env.CRON_SECRET
    req,                \* the request: x-cron-secret header, method, date parameters
    env,                \* the API credentials configured for the run's client
    range,              \* the start and end date the run goes on with
    hpc,                \* where the handler stands
    logId,              \* whether logId holds a row (the 'started' insert succeeded)
    logCalls,           \* the logIngestion calls of the run: [status, ok]
    ingestionLogs,      \* the rows the run inserted into ingestion_logs, in order
    acquired,           \* rate-limiter tokens the run has acquired
    upstream,           \* requests the run sent upstream: [token, data]
    fetched,            \* what the run fetched: [source, records, moneyAsText, orders,
                        \* ordersStep, swallowed (the error getCampaignsData caught)]
    written,            \* rows the run upserted: [sales, orders, ads]
    caught,             \* the error the outer catch received
    res,                \* the HTTP response sent
    \* ---- repeated sales runs against one store ----
    feed,               \* what the upstream answers to every run: [metrics, orders, ordersFail]
    runs,               \* per run: where it stands and whether the store rejected a write
    salesTable,         \* sales_metrics: per date the row, if any
    ordersTable,        \* orders: per amazon_order_id the row, if any
    \* ---- calls of the store service ----
    op,                 \* the method under call
    args,               \* the arguments as the caller handed them over
    data,               \* the caller's array as it is now (its objects are shared)
    cursor,             \* batchUpsert: the loop index i; otherwise the calls made so far
    sent,               \* the .upsert() calls issued: [payload, ok]
    rows,               \* the table written to: per conflict key the row
    outcome             \* "none", "ready", "returned" or "threw"

limiterVars == <<variant, requestsPerSecond, maxBurst, tokens, lastRefill,
                 active, callers, hist, probe>>

tokenVars == <<client, creds, cache, reqs, posts, issued>>

salesVars == <<salesPc, hasClientId, response, result>>

handlerVars == <<kind, cronSecretEnv, req, env, range, hpc, logId, logCalls, ingestionLogs,
                 acquired, upstream, fetched, written, caught, res>>

storeVars == <<feed, runs, salesTable, ordersTable>>

serviceVars == <<op, args, data, cursor, sent, rows, outcome>>

vars == <<now, limiterVars, tokenVars, salesVars, handlerVars, storeVars, serviceVars>>

(***************************************************************************)
(* Bounds of the model.                                                    *)
(***************************************************************************)
StepMs == 500
MaxTicks == 4
MaxExtraCalls == 4
NCallers == 2
MaxExchanges == 2
NRequesters == 2
MaxItems == 3
MaxRecords == 2
NRuns == 2
MaxBatch == 2
NCalls == 2

MaxTime == MaxTicks * StepMs
Callers == 1..NCallers

Min(a, b) == IF a <= b THEN a ELSE b
Max(a, b) == IF a >= b THEN a ELSE b
CeilDiv(a, b) == (a + b - 1) \div b

(***************************************************************************)
(* The idle values of each subsystem's variables.                          *)
(***************************************************************************)
Requesters == 1..NRequesters
Milli == 1000

Idle == [pc |-> "idle", calledAt |-> 0, wakeAt |-> 0]

NoRequest ==
    [pc |-> "idle", startedAt |-> 0, token |-> 0, source |-> "none",
     servedExpires |-> 0, error |-> "none"]

LimiterIdle ==
    /\ variant = "sp"
    /\ requestsPerSecond = 1
    /\ maxBurst = 5
    /\ tokens = 5 * Milli
    /\ lastRefill = 0
    /\ active = 1
    /\ callers = [c \in Callers |-> Idle]
    /\ hist = << >>
    /\ probe = [op |-> "none", has |-> FALSE, count |-> 0]

NoResult ==
    [status |-> "none", error |-> "none", metrics |-> << >>,
     totalRecordsProcessed |-> 0, nonZeroRecords |-> 0]

SalesIdle ==
    /\ salesPc = "ready"
    /\ hasClientId = TRUE
    /\ response = [status |-> 200, body |-> "array", payload |-> << >>]
    /\ result = NoResult

NoResponse == [status |-> 0, error |-> "none", duration |-> FALSE, logId |-> FALSE]

NoRange == [startDate |-> "unset", endDate |-> "unset"]

NothingFetched ==
    [source |-> "none", records |-> 0, moneyAsText |-> FALSE, orders |-> 0,
     ordersStep |-> "none", swallowed |-> "none"]

HandlerIdle ==
    /\ kind = "sales"
    /\ cronSecretEnv = "unset"
    /\ req = [secret |-> "absent", method |-> "GET", startDate |-> "absent",
              endDate |-> "absent", campaignType |-> "all"]
    /\ env = [clientId |-> TRUE, clientSecret |-> TRUE, refreshToken |-> TRUE]
    /\ range = NoRange
    /\ hpc = "start"
    /\ logId = FALSE
    /\ logCalls = << >>
    /\ ingestionLogs = << >>
    /\ acquired = 0
    /\ upstream = [token |-> 0, data |-> 0]
    /\ fetched = NothingFetched
    /\ written = [sales |-> 0, orders |-> 0, ads |-> 0]
    /\ caught = "none"
    /\ res = NoResponse

Runs == 1..NRuns

NoRow ==
    [present |-> FALSE, unit_count |-> 0, order_item_count |-> 0, order_count |-> 0,
     average_unit_price |-> 0, total_sales |-> 0, created_at |-> 0]

NoOrder == [present |-> FALSE, order_total |-> 0, updated_at |-> 0]

NotStarted == [pc |-> "start", rejected |-> FALSE]

StoreIdle ==
    /\ feed = [metrics |-> << >>, orders |-> << >>, ordersFail |-> FALSE]
    /\ runs = [r \in Runs |-> NotStarted]
    /\ salesTable = [d \in {"2024-01-01", "2024-01-02"} |-> NoRow]
    /\ ordersTable = [o \in {"o1", "o2"} |-> NoOrder]

ServiceIdle ==
    /\ op = "none"
    /\ args = << >>
    /\ data = << >>
    /\ cursor = 0
    /\ sent = << >>
    /\ rows = << >>
    /\ outcome = "none"

TokenIdle ==
    /\ client = "sp"
    /\ creds = [clientId |-> TRUE, clientSecret |-> TRUE, refreshToken |-> TRUE]
    /\ cache = << >>
    /\ reqs = [q \in Requesters |-> NoRequest]
    /\ posts = 0
    /\ issued = 0

(***************************************************************************)
(* RateLimiter.  Token counts are held in thousandths (Milli per token) so *)
(* that the fractional refill of the ads limiter is exact.                 *)
(***************************************************************************)
\* new RateLimiter(1, 5) of the sales trigger, new RateLimiter(2, 10) of the ads trigger
LimiterConfigs ==
    { [variant |-> "sp",  requestsPerSecond |-> 1, maxBurst |-> 5],
      [variant |-> "ads", requestsPerSecond |-> 2, maxBurst |-> 10] }

\* _refillTokens(): whole tokens only, and lastRefill moves only when some were added
refillAdded(t) == ((t - lastRefill) * requestsPerSecond) \div 1000

refillTokensSp(t) ==
    IF refillAdded(t) > 0
    THEN [tokens |-> Min(maxBurst * Milli, tokens + refillAdded(t) * Milli), lastRefill |-> t]
    ELSE [tokens |-> tokens, lastRefill |-> lastRefill]

\* the refill at the head of the ads waitForToken(): fractional, lastRefill always moves
refillTokensAds(t) ==
    [tokens |-> Min(maxBurst * Milli, tokens + (t - lastRefill) * requestsPerSecond),
     lastRefill |-> t]

refilled(t) == IF variant = "sp" THEN refillTokensSp(t) ELSE refillTokensAds(t)

\* if (this.tokens >= 1)
hasTokenStrict(tk) == tk > Milli
hasToken(tk) == tk >= Milli

\* the delay handed to setTimeout
waitTimeSpInSeconds == CeilDiv(1000 * 1000, requestsPerSecond)
waitTimeSp == CeilDiv(1000, requestsPerSecond)
waitTimeAds(tk) == (Milli - tk) \div requestsPerSecond
waitTime(tk) == IF variant = "sp" THEN waitTimeSp ELSE waitTimeAds(tk)

\* what the woken caller does to the bucket
wakeTokensSpNoFloor(tk) == tk - Milli
wakeTokensSp(tk) == Max(0, tk - Milli)
wakeTokensAds(tk) == 0
wakeTokens(tk) == IF variant = "sp" THEN wakeTokensSp(tk) ELSE wakeTokensAds(tk)

\* resolve(): the waiting call returns
resolve(c) == [callers EXCEPT ![c] = Idle]

\* a call that has to wait is issued only while the clock of the model can still
\* reach the time of a timer of 1/rate seconds
HorizonWait == CeilDiv(1000, requestsPerSecond)

Waiting(c) == callers[c].pc = "waiting"
Issued == Len(hist) + Cardinality({c \in Callers : Waiting(c)})

LimiterInit ==
    /\ now = 0
    /\ TokenIdle
    /\ SalesIdle
    /\ HandlerIdle
    /\ StoreIdle
    /\ ServiceIdle
    /\ \E cfg \in LimiterConfigs :
          /\ variant = cfg.variant
          /\ requestsPerSecond = cfg.requestsPerSecond
          /\ maxBurst = cfg.maxBurst
          /\ tokens = cfg.maxBurst * Milli
    /\ lastRefill = 0
    /\ active \in Callers
    /\ callers = [c \in Callers |-> Idle]
    /\ hist = << >>
    /\ probe = [op |-> "none", has |-> FALSE, count |-> 0]

\* waitForToken(), up to its return or its setTimeout
waitForToken(c) ==
    /\ c <= active
    /\ callers[c].pc = "idle"
    /\ Issued < maxBurst + MaxExtraCalls
    /\ LET r == refilled(now) IN
          /\ hasToken(r.tokens) \/ now + HorizonWait <= MaxTime
          /\ lastRefill' = r.lastRefill
          /\ IF hasToken(r.tokens)
             THEN /\ tokens' = r.tokens - Milli
                  /\ hist' = Append(hist, <<now, now, now>>)
                  /\ UNCHANGED callers
             ELSE /\ tokens' = r.tokens
                  /\ callers' = [callers EXCEPT ![c] =
                         [pc |-> "waiting", calledAt |-> now, wakeAt |-> now + waitTime(r.tokens)]]
                  /\ UNCHANGED hist
    /\ UNCHANGED <<now, variant, requestsPerSecond, maxBurst, active, probe, tokenVars, salesVars, handlerVars, storeVars, serviceVars>>

\* the setTimeout callback of a waiting call
Wake(c) ==
    /\ Waiting(c)
    /\ now >= callers[c].wakeAt
    /\ tokens' = wakeTokens(tokens)
    /\ callers' = resolve(c)
    /\ hist' = Append(hist, <<callers[c].calledAt, callers[c].wakeAt, now>>)
    /\ UNCHANGED <<now, variant, requestsPerSecond, maxBurst, lastRefill, active, probe, tokenVars, salesVars, handlerVars, storeVars, serviceVars>>

\* hasTokens()
hasTokens ==
    /\ variant = "sp"
    /\ LET r == refilled(now) IN
          /\ tokens' = r.tokens
          /\ lastRefill' = r.lastRefill
          /\ probe' = [op |-> "hasTokens", has |-> hasToken(r.tokens), count |-> 0]
    /\ UNCHANGED <<now, variant, requestsPerSecond, maxBurst, active, callers, hist, tokenVars, salesVars, handlerVars, storeVars, serviceVars>>

\* getTokenCount()
getTokenCount ==
    /\ variant = "sp"
    /\ LET r == refilled(now) IN
          /\ tokens' = r.tokens
          /\ lastRefill' = r.lastRefill
          /\ probe' = [op |-> "getTokenCount", has |-> FALSE, count |-> r.tokens]
    /\ UNCHANGED <<now, variant, requestsPerSecond, maxBurst, active, callers, hist, tokenVars, salesVars, handlerVars, storeVars, serviceVars>>

\* the clock; a timer that is due fires before the clock moves on
Tick ==
    /\ now + StepMs <= MaxTime
    /\ \A c \in Callers : Waiting(c) => now < callers[c].wakeAt
    /\ now' = now + StepMs
    /\ UNCHANGED <<limiterVars, tokenVars, salesVars, handlerVars, storeVars, serviceVars>>

LimiterNext ==
    \/ \E c \in Callers : waitForToken(c)
    \/ \E c \in Callers : Wake(c)
    \/ hasTokens
    \/ getTokenCount
    \/ Tick

SpecLimiter == LimiterInit /\ [][LimiterNext]_vars

SpecLimiterFair ==
    /\ SpecLimiter
    /\ WF_vars(Tick)
    /\ \A c \in Callers : WF_vars(Wake(c))


(***************************************************************************)
(* The access-token cache of the API clients: SPAPIClient.getLWAAccessToken *)
(* ("sp"), AmazonAdsClient.getAccessToken of lib/spApiClient.js ("adsLib")  *)
(* and AmazonAdsClient.getAccessToken of cron/ingest-ads.js ("adsCron").    *)
(***************************************************************************)
TokenClients == {"sp", "adsLib", "adsCron"}

\* the instants at which the clock is read
Instants == {0, 999, 1000, 1001}
\* expires_in of the endpoint's answer, in seconds
ExpiresIn == {60, 61}
\* "- 60000": the safety margin taken off the expiry
ExpiryMargin == 60000

\* a token is a number; 0 stands for `undefined`
\* expires: Date.now() + (data.expires_in * 1000) - 60000
expiresAtLate(t, expiresIn) == t + expiresIn * 1000 + ExpiryMargin
expiresAt(t, expiresIn) == t + expiresIn * 1000 - ExpiryMargin

\* cached && cached.expires > Date.now()
\* (adsCron: accessToken && tokenExpiry && Date.now() < tokenExpiry)
cacheFreshInclusive(t) ==
    /\ Len(cache) = 1
    /\ ~cache[1].nan
    /\ cache[1].expires >= t
    /\ client = "adsCron" => (cache[1].token # 0 /\ cache[1].expires # 0)
cacheFresh(t) ==
    /\ Len(cache) = 1
    /\ ~cache[1].nan
    /\ cache[1].expires > t
    /\ client = "adsCron" => (cache[1].token # 0 /\ cache[1].expires # 0)

\* the credentials guard of each class
credsMissing ==
    CASE client = "sp" -> ~creds.clientId \/ ~creds.clientSecret
      [] client = "adsLib" -> ~creds.clientId
      [] client = "adsCron" -> ~creds.clientId \/ ~creds.clientSecret \/ ~creds.refreshToken

TokenInit ==
    /\ now = 0
    /\ LimiterIdle
    /\ SalesIdle
    /\ HandlerIdle
    /\ StoreIdle
    /\ ServiceIdle
    /\ client \in TokenClients
    /\ creds \in [clientId : BOOLEAN, clientSecret : BOOLEAN, refreshToken : BOOLEAN]
    /\ cache = << >>
    /\ reqs = [q \in Requesters |-> NoRequest]
    /\ posts = 0
    /\ issued = 0

served(q, src) ==
    [pc |-> "returned", startedAt |-> now, token |-> IF src = "cache" THEN cache[1].token ELSE 0,
     source |-> src, servedExpires |-> IF src = "cache" THEN cache[1].expires ELSE 0,
     error |-> "none"]

threw(q, err) == [reqs[q] EXCEPT !.pc = "threw", !.error = err]

\* the token request up to its return, its throw or its `await fetch(...)`
getAccessTokenStart(q) ==
    /\ reqs[q].pc # "fetching"
    /\ LET fresh == [NoRequest EXCEPT !.startedAt = now] IN
       IF client = "adsCron"
       THEN IF cacheFresh(now)
            THEN reqs' = [reqs EXCEPT ![q] = served(q, "cache")] /\ UNCHANGED posts
            ELSE IF credsMissing
                 THEN reqs' = [reqs EXCEPT ![q] = served(q, "mock")] /\ UNCHANGED posts
                 ELSE /\ posts < MaxExchanges
                      /\ reqs' = [reqs EXCEPT ![q] = [fresh EXCEPT !.pc = "fetching"]]
                      /\ posts' = posts + 1
       ELSE IF credsMissing
            THEN /\ reqs' = [reqs EXCEPT ![q] =
                        [fresh EXCEPT !.pc = "threw", !.error = "missingCredentials"]]
                 /\ UNCHANGED posts
            ELSE IF cacheFresh(now)
                 THEN reqs' = [reqs EXCEPT ![q] = served(q, "cache")] /\ UNCHANGED posts
                 ELSE /\ posts < MaxExchanges
                      /\ reqs' = [reqs EXCEPT ![q] = [fresh EXCEPT !.pc = "fetching"]]
                      /\ posts' = posts + 1
    /\ UNCHANGED <<now, limiterVars, client, creds, cache, issued, salesVars, handlerVars, storeVars, serviceVars>>

\* the endpoint answered with success: the token is cached and returned
getAccessTokenOk(q) ==
    /\ reqs[q].pc = "fetching"
    /\ \E e \in ExpiresIn :
          LET tok == issued + 1 IN
          /\ issued' = tok
          /\ cache' = <<[token |-> tok, expires |-> expiresAt(now, e), nan |-> FALSE,
                         at |-> now, expiresIn |-> e]>>
          /\ reqs' = [reqs EXCEPT ![q] =
                 [@ EXCEPT !.pc = "returned", !.token = tok, !.source = "exchange"]]
    /\ UNCHANGED <<now, limiterVars, client, creds, posts, salesVars, handlerVars, storeVars, serviceVars>>

\* the endpoint answered with a non-success status.  "sp" and "adsCron" throw;
\* "adsLib" does not look at the status and caches what the error body holds:
\* access_token undefined, expires NaN
getAccessTokenRejected(q) ==
    /\ reqs[q].pc = "fetching"
    /\ IF client = "adsLib"
       THEN /\ cache' = <<[token |-> 0, expires |-> 0, nan |-> TRUE, at |-> now, expiresIn |-> 0]>>
            /\ reqs' = [reqs EXCEPT ![q] =
                   [@ EXCEPT !.pc = "returned", !.token = 0, !.source = "exchange"]]
       ELSE /\ reqs' = [reqs EXCEPT ![q] = threw(q, "tokenExchange")]
            /\ UNCHANGED cache
    /\ UNCHANGED <<now, limiterVars, client, creds, posts, issued, salesVars, handlerVars, storeVars, serviceVars>>

\* fetch() itself rejected (no answer): every class rethrows
getAccessTokenNetworkError(q) ==
    /\ reqs[q].pc = "fetching"
    /\ reqs' = [reqs EXCEPT ![q] = threw(q, "network")]
    /\ UNCHANGED <<now, limiterVars, client, creds, cache, posts, issued, salesVars, handlerVars, storeVars, serviceVars>>

TokenClock ==
    /\ \E t \in Instants : t > now /\ now' = t
    /\ UNCHANGED <<limiterVars, tokenVars, salesVars, handlerVars, storeVars, serviceVars>>

TokenNext ==
    \/ \E q \in Requesters : getAccessTokenStart(q)
    \/ \E q \in Requesters : getAccessTokenOk(q)
    \/ \E q \in Requesters : getAccessTokenRejected(q)
    \/ \E q \in Requesters : getAccessTokenNetworkError(q)
    \/ TokenClock

SpecToken == TokenInit /\ [][TokenNext]_vars


(***************************************************************************)
(* SPAPIClient.getSalesData: the request, and the grouping of the payload's *)
(* line items by date.                                                      *)
(***************************************************************************)
\* the startDate argument of the call
StartDate == "2024-01-01"
Dates == {"2024-01-01", "2024-01-02"}

\* item.interval: <<date, time of day>> for "<date>T<time>...", << >> when the
\* item has none
Intervals == {<<d, t>> : d \in Dates, t \in {"00:00Z"}} \cup {<<StartDate, "12:00Z">>, << >>}

\* the volume fields of a line item: unitCount, orderItemCount, orderCount and
\* totalSales.amount; asText: the JSON value of the amount is a string (its
\* decimal digits) rather than a number
Volumes ==
    { [unitCount |-> 0, orderItemCount |-> 0, orderCount |-> 0, amount |-> 0, asText |-> FALSE],
      [unitCount |-> 3, orderItemCount |-> 2, orderCount |-> 1, amount |-> 30, asText |-> FALSE],
      [unitCount |-> 1, orderItemCount |-> 0, orderCount |-> 0, amount |-> 0, asText |-> FALSE],
      [unitCount |-> 0, orderItemCount |-> 1, orderCount |-> 0, amount |-> 0, asText |-> FALSE],
      [unitCount |-> 0, orderItemCount |-> 0, orderCount |-> 0, amount |-> 10, asText |-> FALSE],
      [unitCount |-> 1, orderItemCount |-> 1, orderCount |-> 1, amount |-> 5, asText |-> TRUE] }

Items == {[interval |-> i, vol |-> v] : i \in Intervals, v \in Volumes}

RECURSIVE SeqsUpTo(_, _)
SeqsUpTo(S, n) ==
    IF n = 0 THEN {<< >>}
    ELSE LET shorter == SeqsUpTo(S, n - 1) IN
         shorter \cup {Append(q, x) : q \in {r \in shorter : Len(r) = n - 1}, x \in S}

Payloads == SeqsUpTo(Items, MaxItems)

\* the answers of the upstream: success with a payload array, success with a
\* body that has no payload array, or an error status
Responses ==
    {[status |-> 200, body |-> "array", payload |-> p] : p \in Payloads}
    \cup {[status |-> 200, body |-> b, payload |-> << >>] : b \in {"missing", "null", "notArray"}}
    \cup {[status |-> st, body |-> "error", payload |-> << >>] : st \in {429, 500}}

\* item.interval ? item.interval.split('T')[0] : startDate
dateStr(item) == IF item.interval = << >> THEN StartDate ELSE item.interval[1]

\* index of the group of date d in the Map (0: no such key); a Map keeps its keys
\* in the order of their first insertion
RECURSIVE indexOf(_, _, _)
indexOf(groups, d, i) ==
    IF i > Len(groups) THEN 0
    ELSE IF groups[i].date = d THEN i
    ELSE indexOf(groups, d, i + 1)

\* the number of characters of String(n), and 10 to the power k
RECURSIVE Digits(_)
Digits(n) == IF n < 10 THEN 1 ELSE 1 + Digits(n \div 10)
RECURSIVE Pow10(_)
Pow10(k) == IF k = 0 THEN 1 ELSE 10 * Pow10(k - 1)

\* total += amount of JavaScript, on the numeric reading of the operands: a sum
\* of two numbers, the concatenation of the two renderings when either is a string
plusEquals(total, totalIsText, amount, amountIsText) ==
    IF totalIsText \/ amountIsText
    THEN [value |-> total * Pow10(Digits(amount)) + amount, isText |-> TRUE]
    ELSE [value |-> total + amount, isText |-> FALSE]

\* one pass of payload.forEach
addItem(groups, item) ==
    LET d == dateStr(item)
        k == indexOf(groups, d, 1)
        withKey == IF k = 0
                   THEN Append(groups, [date |-> d, unitCount |-> 0, orderItemCount |-> 0,
                                        orderCount |-> 0, totalSales |-> 0,
                                        totalSalesIsText |-> FALSE])
                   ELSE groups
        j == IF k = 0 THEN Len(withKey) ELSE k
        sales == plusEquals(withKey[j].totalSales, withKey[j].totalSalesIsText,
                            item.vol.amount, item.vol.asText)
    IN [withKey EXCEPT ![j] =
           [@ EXCEPT !.unitCount = @ + item.vol.unitCount,
                     !.orderItemCount = @ + item.vol.orderItemCount,
                     !.orderCount = @ + item.vol.orderCount,
                     !.totalSales = sales.value,
                     !.totalSalesIsText = sales.isText]]

RECURSIVE dateMetrics(_, _)
dateMetrics(payload, groups) ==
    IF payload = << >> THEN groups
    ELSE dateMetrics(Tail(payload), addItem(groups, Head(payload)))

\* Array.from(dateMetrics.values()).map(...)
toMetric(g) ==
    [date |-> g.date, units_ordered |-> g.unitCount, units_shipped |-> g.unitCount,
     ordered_product_sales |-> g.totalSales, shipped_product_sales |-> g.totalSales,
     total_order_items |-> g.orderItemCount, salesIsText |-> g.totalSalesIsText]

\* the predicate of metrics.filter
keepsEverything(m) == TRUE
nonZero(m) ==
    \/ m.units_ordered > 0
    \/ m.total_order_items > 0
    \/ m.ordered_product_sales > 0

RECURSIVE filteredMetrics(_)
filteredMetrics(groups) ==
    IF groups = << >> THEN << >>
    ELSE LET m == toMetric(Head(groups)) IN
         IF nonZero(m) THEN <<m>> \o filteredMetrics(Tail(groups))
         ELSE filteredMetrics(Tail(groups))

SalesInit ==
    /\ now = 0
    /\ LimiterIdle
    /\ TokenIdle
    /\ HandlerIdle
    /\ StoreIdle
    /\ ServiceIdle
    /\ salesPc = "ready"
    /\ hasClientId \in BOOLEAN
    /\ response \in Responses
    /\ result = NoResult

\* getSalesData up to `await this.makeRequest(...)`
getSalesDataCall ==
    /\ salesPc = "ready"
    /\ IF ~hasClientId
       THEN /\ salesPc' = "done"
            /\ result' = [NoResult EXCEPT !.status = "threw",
                                          !.error = "Missing credentials for sales data"]
       ELSE /\ salesPc' = "awaiting"
            /\ UNCHANGED result
    /\ UNCHANGED <<now, limiterVars, tokenVars, handlerVars, storeVars, serviceVars, hasClientId, response>>

\* makeRequest threw: the upstream answered with an error status
getSalesDataRequestFailed ==
    /\ salesPc = "awaiting"
    /\ response.status # 200
    /\ salesPc' = "done"
    /\ result' = [NoResult EXCEPT !.status = "threw",
                     !.error = IF response.status = 429
                               THEN "SP-API rate limit exceeded"
                               ELSE "SP-API request failed"]
    /\ UNCHANGED <<now, limiterVars, tokenVars, handlerVars, storeVars, serviceVars, hasClientId, response>>

\* data && data.payload && Array.isArray(data.payload), with any body accepted
anyStructure(body) == TRUE

\* data && data.payload && Array.isArray(data.payload)
validStructure(body) == body = "array"

\* makeRequest returned { data, rateLimitInfo }
getSalesDataResponse ==
    /\ salesPc = "awaiting"
    /\ response.status = 200
    /\ salesPc' = "done"
    /\ IF validStructure(response.body)
       THEN LET kept == filteredMetrics(dateMetrics(response.payload, << >>)) IN
            result' = [status |-> "returned", error |-> "none", metrics |-> kept,
                       totalRecordsProcessed |-> Len(response.payload),
                       nonZeroRecords |-> Len(kept)]
       ELSE result' = [NoResult EXCEPT !.status = "threw",
                          !.error = "SP-API returned invalid response structure"]
    /\ UNCHANGED <<now, limiterVars, tokenVars, handlerVars, storeVars, serviceVars, hasClientId, response>>

SalesNext ==
    \/ getSalesDataCall
    \/ getSalesDataRequestFailed
    \/ getSalesDataResponse

SpecSales == SalesInit /\ [][SalesNext]_vars

(***************************************************************************)
(* The cron handlers: handler() of cron/ingest-sales.js and handler() of   *)
(* cron/ingest-ads.js.  A behaviour follows one invocation, one action per  *)
(* awaited step of the handler.                                             *)
(***************************************************************************)
\* values of the x-cron-secret header ("absent": no header, "empty": '') and of CRON_SECRET
Secrets == {"absent", "empty", "wrong", "s3cret"}
SecretEnvs == {"unset", "s3cret"}
Methods == {"POST", "GET", "PUT"}
\* a date parameter: not given, 'YYYY-MM-DD', a known {{TEMPLATE}}, any other
\* string, or a JSON value that is not a string
DateKinds == {"absent", "valid", "template", "malformed", "nonString"}
\* campaignType: 'all', or a type none of the fetched campaigns has
CampaignTypes == {"all", "noMatch"}
CredentialSets == [clientId : BOOLEAN, clientSecret : BOOLEAN, refreshToken : BOOLEAN]
RecordCounts == 0..MaxRecords

Requests(k) ==
    IF k = "sales"
    THEN [secret : Secrets, method : Methods, startDate : DateKinds,
          endDate : DateKinds, campaignType : {"all"}]
    ELSE [secret : Secrets, method : Methods, startDate : {"absent"},
          endDate : {"absent"}, campaignType : CampaignTypes]

\* the header check of the handlers, with a present header accepted unchecked
authorizedIfPresent(cronSecret, expected) == cronSecret \notin {"absent", "empty"}

\* !(!cronSecret || cronSecret !== process.env.CRON_SECRET)
authorized(cronSecret, expected) ==
    /\ cronSecret \notin {"absent", "empty"}
    /\ cronSecret = expected

methodAllowed(method) == method \in {"POST", "GET"}

\* processTemplateVariable(): a known template is replaced by the date it names
processTemplateVariable(d) == IF d = "template" THEN "expanded" ELSE d

\* the parameter after the destructuring default
withDefault(d) == IF d = "absent" THEN "yesterday" ELSE d

\* isValidDate() of a string; on a non-string dateString.match is not a function
isValidDate(d) == d \in {"valid", "expanded", "yesterday"}

\* the date the sales handler goes on with
processedDate(d) ==
    LET p == processTemplateVariable(withDefault(d)) IN
    IF isValidDate(p) THEN p ELSE "yesterday"

\* filteredCampaigns.length
filteredCampaigns ==
    IF req.campaignType = "all" THEN fetched.records ELSE 0

\* error.message.includes('rate limit'); .includes('401') || .includes('403');
\* .includes('credentials') || .includes('Missing')
mentionsRateLimit(e) == e \in {"SP-API rate limit exceeded"}
mentionsAuthStatus(e) ==
    e \in {"API call failed: 401", "API call failed: 403",
           "Token refresh failed: 401", "Token refresh failed: 403"}
mentionsCredentials(e) ==
    e \in {"SP-API: Missing credentials for sales data", "Missing LWA credentials"}

\* supabaseService.logIngestion(type, status, details): the insert succeeds or
\* is rejected by the store (then null is returned)
logIngestion(status, ok) ==
    /\ logCalls' = Append(logCalls, [status |-> status, ok |-> ok])
    /\ ingestionLogs' = IF ok THEN Append(ingestionLogs, status) ELSE ingestionLogs

\* a rejected log write thrown on to the caller's catch
logWriteThrows(ok, next) == IF ok THEN next ELSE "catch"

\* logIngestion returns the row, or null when the insert is rejected or throws:
\* either way the caller goes on with its next step
afterLogWrite(ok, next) == next

\* res.status(status).json({...}); timed: the body carries duration and logId: logId?.id
respond(status, error, timed) ==
    /\ res' = [status |-> status, error |-> error, duration |-> timed,
               logId |-> timed /\ logId]
    /\ hpc' = "done"

Init ==
    /\ now = 0
    /\ LimiterIdle
    /\ TokenIdle
    /\ SalesIdle
    /\ StoreIdle
    /\ ServiceIdle
    /\ kind \in {"sales", "ads"}
    /\ cronSecretEnv \in SecretEnvs
    /\ req \in Requests(kind)
    /\ env \in CredentialSets
    /\ range = NoRange
    /\ hpc = "start"
    /\ logId = FALSE
    /\ logCalls = << >>
    /\ ingestionLogs = << >>
    /\ acquired = 0
    /\ upstream = [token |-> 0, data |-> 0]
    /\ fetched = NothingFetched
    /\ written = [sales |-> 0, orders |-> 0, ads |-> 0]
    /\ caught = "none"
    /\ res = NoResponse

others == <<now, limiterVars, tokenVars, salesVars, storeVars, serviceVars, kind, cronSecretEnv, req, env>>

\* 1. authenticate the cron request, then the method check
Authenticate ==
    /\ hpc = "start"
    /\ IF ~authorized(req.secret, cronSecretEnv)
       THEN respond(401, "Unauthorized", FALSE)
       ELSE IF ~methodAllowed(req.method)
            THEN respond(405, "Method not allowed", FALSE)
            ELSE /\ hpc' = "parse"
                 /\ UNCHANGED res
    /\ UNCHANGED <<others, range, logId, logCalls, ingestionLogs, acquired, upstream,
                   fetched, written, caught>>

\* 3. parse the request parameters; the sales handler expands templates and
\* validates the dates, and isValidDate throws on a value that is not a string
ParseParameters ==
    /\ hpc = "parse"
    /\ IF kind = "sales" /\ "nonString" \in {req.startDate, req.endDate}
       THEN /\ caught' = "TypeError"
            /\ hpc' = "catch"
            /\ UNCHANGED range
       ELSE /\ range' = IF kind = "sales"
                        THEN [startDate |-> processedDate(req.startDate),
                              endDate |-> processedDate(req.endDate)]
                        ELSE [startDate |-> withDefault(req.startDate),
                              endDate |-> IF req.endDate = "absent" THEN "today"
                                          ELSE req.endDate]
            /\ hpc' = "logStart"
            /\ UNCHANGED caught
    /\ UNCHANGED <<others, logId, logCalls, ingestionLogs, acquired, upstream,
                   fetched, written, res>>

\* 4. logId = await supabaseService.logIngestion(type, 'started', ...)
LogStarted ==
    /\ hpc = "logStart"
    /\ \E ok \in BOOLEAN :
        /\ logIngestion("started", ok)
        /\ logId' = ok
        /\ hpc' = afterLogWrite(ok, "acquire")
    /\ UNCHANGED <<others, range, acquired, upstream, fetched, written, caught, res>>

\* 5. await rateLimiter.waitForToken()
AcquireToken ==
    /\ hpc = "acquire"
    /\ acquired' = acquired + 1
    /\ hpc' = "fetch"
    /\ UNCHANGED <<others, range, logId, logCalls, ingestionLogs, upstream, fetched,
                   written, caught, res>>

\* what the upstream answers to the run's data request
SalesAnswers == {"tokenRejected", "rateLimited", "failed", "invalidBody", "metrics"}
AdsAnswers == {"tokenRejected", "campaignsFailed", "reportFailed", "campaigns"}

\* a failure of the fetch noted, answered with substitute records, and the run going on
salesFetchMocked(message, tokenPosts, dataRequests) ==
    /\ fetched' = [source |-> "mock", records |-> 1, moneyAsText |-> FALSE, orders |-> 0,
                   ordersStep |-> "none", swallowed |-> "none"]
    /\ upstream' = [token |-> upstream.token + tokenPosts,
                    data |-> upstream.data + dataRequests]
    /\ hpc' = "upsert"
    /\ caught' = message

\* getSalesData threw inside the handler's inner try
salesFetchThrew(message, tokenPosts, dataRequests) ==
    /\ caught' = message
    /\ upstream' = [token |-> upstream.token + tokenPosts,
                    data |-> upstream.data + dataRequests]
    /\ hpc' = "logFetchFailed"
    /\ UNCHANGED fetched

\* 6. salesResult = await spApiClient.getSalesData(startDate, endDate, granularity)
FetchSales ==
    /\ hpc = "fetch"
    /\ kind = "sales"
    /\ IF ~env.clientId
       THEN salesFetchThrew("SP-API: Missing credentials for sales data", 0, 0)
       ELSE IF ~env.clientSecret
       THEN salesFetchThrew("Missing LWA credentials", 0, 0)
       ELSE \E answer \in SalesAnswers :
            CASE answer = "tokenRejected" -> salesFetchThrew("LWA token request failed", 1, 0)
              [] answer = "rateLimited" -> salesFetchThrew("SP-API rate limit exceeded", 1, 1)
              [] answer = "failed" -> salesFetchThrew("SP-API request failed", 1, 1)
              [] answer = "invalidBody" ->
                    salesFetchThrew("SP-API returned invalid response structure", 1, 1)
              [] answer = "metrics" ->
                    \E n \in RecordCounts :
                        /\ fetched' = [source |-> "real", records |-> n, moneyAsText |-> FALSE,
                                       orders |-> 0, ordersStep |-> "none",
                                       swallowed |-> "none"]
                        /\ upstream' = [token |-> upstream.token + 1,
                                        data |-> upstream.data + 1]
                        /\ hpc' = IF n = 0 THEN "logEmpty" ELSE "upsert"
                        /\ UNCHANGED caught
    /\ UNCHANGED <<others, range, logId, logCalls, ingestionLogs, acquired, written, res>>

\* the inner catch of the sales handler: log the failure ...
LogFetchFailed ==
    /\ hpc = "logFetchFailed"
    /\ \E ok \in BOOLEAN :
        /\ logIngestion("failed", ok)
        /\ hpc' = afterLogWrite(ok, "respondFetchFailed")
    /\ UNCHANGED <<others, range, logId, acquired, upstream, fetched, written, caught, res>>

\* ... and return the error
RespondFetchFailed ==
    /\ hpc = "respondFetchFailed"
    /\ respond(500, "SP-API request failed", TRUE)
    /\ UNCHANGED <<others, range, logId, logCalls, ingestionLogs, acquired, upstream,
                   fetched, written, caught>>

\* getMockCampaignsData(): two campaigns with numeric metrics
mockCampaigns ==
    [source |-> "mock", records |-> 2, moneyAsText |-> FALSE, orders |-> 0,
     ordersStep |-> "none", swallowed |-> "none"]

\* the statuses of a response that is not ok
AdsFailureStatuses == {401, 403, 500}

\* `Token refresh failed: ${tokenResponse.status} ...`
tokenRefreshFailed(status) ==
    CASE status = 401 -> "Token refresh failed: 401"
      [] status = 403 -> "Token refresh failed: 403"
      [] OTHER -> "Token refresh failed: 500"

\* `API call failed: ${response.status} ...`
apiCallFailed(status) ==
    CASE status = 401 -> "API call failed: 401"
      [] status = 403 -> "API call failed: 403"
      [] OTHER -> "API call failed: 500"

\* the catch of getCampaignsData: a warning with the message, then mock data
fallBackToMock(message) == [mockCampaigns EXCEPT !.swallowed = message]

\* 6. campaignsResult = await adsClient.getCampaignsData(startDate, endDate):
\* mock data without a client id, with the mock access token, and whenever
\* the real calls throw
FetchCampaigns ==
    /\ hpc = "fetch"
    /\ kind = "ads"
    /\ IF ~env.clientId \/ ~env.clientSecret \/ ~env.refreshToken
       THEN /\ fetched' = mockCampaigns
            /\ UNCHANGED upstream
       ELSE \E answer \in AdsAnswers, status \in AdsFailureStatuses :
            CASE answer = "tokenRejected" ->
                    /\ fetched' = fallBackToMock(tokenRefreshFailed(status))
                    /\ upstream' = [upstream EXCEPT !.token = @ + 1]
              [] answer = "campaignsFailed" ->
                    /\ fetched' = fallBackToMock(apiCallFailed(status))
                    /\ upstream' = [token |-> upstream.token + 1, data |-> upstream.data + 1]
              [] answer = "reportFailed" ->
                    /\ fetched' = fallBackToMock(apiCallFailed(status))
                    /\ upstream' = [token |-> upstream.token + 1, data |-> upstream.data + 2]
              [] answer = "campaigns" ->
                    /\ \E n \in RecordCounts, asText \in BOOLEAN :
                          /\ n = 0 => ~asText
                          /\ fetched' = [source |-> "real", records |-> n,
                                         moneyAsText |-> asText, orders |-> 0,
                                         ordersStep |-> "none", swallowed |-> "none"]
                    /\ upstream' = [token |-> upstream.token + 1, data |-> upstream.data + 2]
    /\ hpc' = IF fetched'.records = 0 THEN "logEmpty" ELSE "upsert"
    /\ UNCHANGED <<others, range, logId, logCalls, ingestionLogs, acquired, written,
                   caught, res>>

\* 7. nothing to process: log completion ...
LogNoData ==
    /\ hpc = "logEmpty"
    /\ \E ok \in BOOLEAN :
        /\ logIngestion("completed", ok)
        /\ hpc' = afterLogWrite(ok, "respondEmpty")
    /\ UNCHANGED <<others, range, logId, acquired, upstream, fetched, written, caught, res>>

\* ... and answer 200; the ads handler's body has neither duration nor logId
RespondNoData ==
    /\ hpc = "respondEmpty"
    /\ respond(200, "none", kind = "sales")
    /\ UNCHANGED <<others, range, logId, logCalls, ingestionLogs, acquired, upstream,
                   fetched, written, caught>>

\* 8. await supabaseService.upsertSalesData(salesResult.metrics, 'sp-api-cron')
UpsertSales ==
    /\ hpc = "upsert"
    /\ kind = "sales"
    /\ \E ok \in BOOLEAN :
        IF ok
        THEN /\ written' = [written EXCEPT !.sales = @ + fetched.records]
             /\ hpc' = "acquireMore"
             /\ UNCHANGED caught
        ELSE /\ caught' = "store error"
             /\ hpc' = "catch"
             /\ UNCHANGED written
    /\ UNCHANGED <<others, range, logId, logCalls, ingestionLogs, acquired, upstream,
                   fetched, res>>

\* 8. await supabaseService.upsertAdsData(filteredCampaigns, 'ads-api-cron'):
\* an empty list is answered without touching the store
UpsertAds ==
    /\ hpc = "upsert"
    /\ kind = "ads"
    /\ \E ok \in BOOLEAN :
        IF filteredCampaigns = 0 \/ ok
        THEN /\ written' = [written EXCEPT !.ads = @ + filteredCampaigns]
             /\ hpc' = "acquireMore"
             /\ UNCHANGED caught
        ELSE /\ caught' = "store error"
             /\ hpc' = "catch"
             /\ UNCHANGED written
    /\ UNCHANGED <<others, range, logId, logCalls, ingestionLogs, acquired, upstream,
                   fetched, res>>

\* 9. the second waitForToken(): before the orders fetch of the sales handler;
\* in the ads handler only with a client id and campaigns left after the filter
AcquireMore ==
    /\ hpc = "acquireMore"
    /\ IF kind = "sales"
       THEN /\ acquired' = acquired + 1
            /\ hpc' = "fetchOrders"
       ELSE /\ acquired' = IF env.clientId /\ filteredCampaigns > 0
                           THEN acquired + 1 ELSE acquired
            /\ hpc' = "logCompleted"
    /\ UNCHANGED <<others, range, logId, logCalls, ingestionLogs, upstream, fetched,
                   written, caught, res>>

\* a failure of the orders step thrown on to the outer catch
ordersFailureRethrown == "catch"

\* a failure of the orders step answered at once, the completion log skipped
ordersFailureAnswered == "respond"

\* the inner catch of the orders step: a warning, and the run continues
afterOrdersFailure == "logCompleted"

\* 9. ordersResult = await spApiClient.getOrdersData(startDate, endDate); a
\* failure is swallowed by the inner catch
FetchOrders ==
    /\ hpc = "fetchOrders"
    /\ upstream' = [upstream EXCEPT !.data = @ + 1]
    /\ \E n \in RecordCounts, failed \in BOOLEAN :
        /\ failed => n = 0
        /\ fetched' = [fetched EXCEPT !.orders = n,
                                      !.ordersStep = IF failed THEN "fetchFailed"
                                                     ELSE "fetched"]
        /\ hpc' = IF failed THEN afterOrdersFailure
                  ELSE IF n > 0 THEN "upsertOrders" ELSE "logCompleted"
    /\ UNCHANGED <<others, range, logId, logCalls, ingestionLogs, acquired, written,
                   caught, res>>

\* 9. await supabaseService.upsertOrdersData(ordersResult.orders, 'sp-api-cron'),
\* inside the same inner try
UpsertOrders ==
    /\ hpc = "upsertOrders"
    /\ \E ok \in BOOLEAN :
        IF ok
        THEN /\ written' = [written EXCEPT !.orders = @ + fetched.orders]
             /\ fetched' = [fetched EXCEPT !.ordersStep = "upserted"]
             /\ hpc' = "logCompleted"
        ELSE /\ fetched' = [fetched EXCEPT !.ordersStep = "upsertFailed"]
             /\ hpc' = afterOrdersFailure
             /\ UNCHANGED written
    /\ UNCHANGED <<others, range, logId, logCalls, ingestionLogs, acquired, upstream,
                   caught, res>>

\* 10. log successful completion
LogCompleted ==
    /\ hpc = "logCompleted"
    /\ \E ok \in BOOLEAN :
        /\ logIngestion("completed", ok)
        /\ hpc' = afterLogWrite(ok, "respond")
    /\ UNCHANGED <<others, range, logId, acquired, upstream, fetched, written,
                   caught, res>>

\* 11. the ads handler's summary statistics: the reduce over c.cost / c.sales_7d
\* yields a string when a metric is one, and totalCost.toFixed then throws
summaryThrows == kind = "ads" /\ filteredCampaigns > 0 /\ fetched.moneyAsText

\* 11./12. return the success response
RespondSuccess ==
    /\ hpc = "respond"
    /\ IF summaryThrows
       THEN /\ caught' = "TypeError"
            /\ hpc' = "catch"
            /\ UNCHANGED res
       ELSE /\ respond(200, "none", TRUE)
            /\ UNCHANGED caught
    /\ UNCHANGED <<others, range, logId, logCalls, ingestionLogs, acquired, upstream,
                   fetched, written>>

\* the outer catch: log the failure inside a try/catch of its own ...
LogFailure ==
    /\ hpc = "catch"
    /\ \E ok \in BOOLEAN : logIngestion("failed", ok)
    /\ hpc' = "respondError"
    /\ UNCHANGED <<others, range, logId, acquired, upstream, fetched, written,
                   caught, res>>

\* ... and map the error to a response
RespondError ==
    /\ hpc = "respondError"
    /\ IF mentionsRateLimit(caught)
       THEN respond(429, "Rate limit exceeded", FALSE)
       ELSE IF kind = "sales" /\ mentionsCredentials(caught)
       THEN respond(500, "Configuration error", TRUE)
       ELSE IF kind = "ads" /\ mentionsAuthStatus(caught)
       THEN respond(401, "Authentication failed", FALSE)
       ELSE respond(500, "Internal server error", TRUE)
    /\ UNCHANGED <<others, range, logId, logCalls, ingestionLogs, acquired, upstream,
                   fetched, written, caught>>

Next ==
    \/ Authenticate
    \/ ParseParameters
    \/ LogStarted
    \/ AcquireToken
    \/ FetchSales
    \/ LogFetchFailed
    \/ RespondFetchFailed
    \/ FetchCampaigns
    \/ LogNoData
    \/ RespondNoData
    \/ UpsertSales
    \/ UpsertAds
    \/ AcquireMore
    \/ FetchOrders
    \/ UpsertOrders
    \/ LogCompleted
    \/ RespondSuccess
    \/ LogFailure
    \/ RespondError

Spec == Init /\ [][Next]_vars

(***************************************************************************)
(* Repeated sales runs against one store: the persistence steps of the     *)
(* sales handler (SupabaseService.upsertSalesData, upsertOrdersData) taken  *)
(* by several runs, one after the other or interleaved, that are given the  *)
(* same upstream answers.                                                   *)
(***************************************************************************)
OrderIds == {"o1", "o2"}

\* the records getSalesData returns: one per date
MetricRecords ==
    { [date |-> d, units_ordered |-> v[1], total_order_items |-> v[2],
       ordered_product_sales |-> v[3]] : d \in Dates, v \in {<<3, 2, 30>>, <<0, 1, 0>>} }

FeedMetrics ==
    { q \in SeqsUpTo(MetricRecords, Cardinality(Dates)) :
        \A i, j \in 1..Len(q) : q[i].date = q[j].date => i = j }

FeedOrders ==
    { << >>,
      <<[amazon_order_id |-> "o1", order_total |-> 10]>>,
      <<[amazon_order_id |-> "o1", order_total |-> 10],
        [amazon_order_id |-> "o2", order_total |-> 0]>> }

\* uniqueDataMap of upsertSalesData: the first record of a date is kept and
\* the later ones of that date are added into it
RECURSIVE uniqueByDate(_, _)
uniqueByDate(records, unique) ==
    IF records = << >> THEN unique
    ELSE LET record == Head(records)
             k == indexOf(unique, record.date, 1)
         IN uniqueByDate(Tail(records),
                IF k = 0 THEN Append(unique, record)
                ELSE [unique EXCEPT ![k] =
                        [@ EXCEPT !.units_ordered = @ + record.units_ordered,
                                  !.total_order_items = @ + record.total_order_items,
                                  !.ordered_product_sales = @ + record.ordered_product_sales]])

\* parseFloat((sales / units).toFixed(4)), in ten-thousandths
averageUnitPrice(sales, units) ==
    IF sales # 0 /\ units # 0 THEN (2 * sales * 10000 + units) \div (2 * units) ELSE 0

\* transformedData of upsertSalesData; stamp: new Date().toISOString() of the run
transformSales(record, stamp) ==
    [present |-> TRUE,
     unit_count |-> record.units_ordered,
     order_item_count |-> record.total_order_items,
     order_count |-> record.units_ordered,
     average_unit_price |-> averageUnitPrice(record.ordered_product_sales,
                                             record.units_ordered),
     total_sales |-> record.ordered_product_sales,
     created_at |-> stamp]

\* an insert that adds the new values to a row already there
RECURSIVE insertAdding(_, _, _)
insertAdding(table, records, stamp) ==
    IF records = << >> THEN table
    ELSE LET row == transformSales(Head(records), stamp)
             old == table[Head(records).date]
         IN insertAdding([table EXCEPT ![Head(records).date] =
                            [row EXCEPT !.unit_count = @ + old.unit_count,
                                        !.order_item_count = @ + old.order_item_count,
                                        !.total_sales = @ + old.total_sales]],
                         Tail(records), stamp)

\* .from('sales_metrics').upsert(transformedData, { onConflict:
\* 'date,marketplace_id,granularity', ignoreDuplicates: false }): marketplace_id
\* and granularity are the same in every row, so the date is the key
RECURSIVE upsertSalesRows(_, _, _)
upsertSalesRows(table, records, stamp) ==
    IF records = << >> THEN table
    ELSE upsertSalesRows([table EXCEPT ![Head(records).date] =
                             transformSales(Head(records), stamp)],
                         Tail(records), stamp)

\* .from('orders').upsert(transformedData, { onConflict: 'amazon_order_id' })
RECURSIVE upsertOrderRows(_, _, _)
upsertOrderRows(table, orders, stamp) ==
    IF orders = << >> THEN table
    ELSE upsertOrderRows([table EXCEPT ![Head(orders).amazon_order_id] =
                             [present |-> TRUE, order_total |-> Head(orders).order_total,
                              updated_at |-> stamp]],
                         Tail(orders), stamp)

RerunInit ==
    /\ now = 0
    /\ LimiterIdle
    /\ TokenIdle
    /\ SalesIdle
    /\ HandlerIdle
    /\ ServiceIdle
    /\ feed \in [metrics : FeedMetrics, orders : FeedOrders, ordersFail : BOOLEAN]
    /\ runs = [r \in Runs |-> NotStarted]
    /\ salesTable = [d \in Dates |-> NoRow]
    /\ ordersTable = [o \in OrderIds |-> NoOrder]

rest == <<now, limiterVars, tokenVars, salesVars, handlerVars, serviceVars, feed>>

\* 6./7. the run has its sales metrics; with none it ends without a write
RunFetchSales(r) ==
    /\ runs[r].pc = "start"
    /\ runs' = [runs EXCEPT ![r].pc = IF feed.metrics = << >> THEN "done" ELSE "upsertSales"]
    /\ UNCHANGED <<rest, salesTable, ordersTable>>

\* 8. await supabaseService.upsertSalesData(salesResult.metrics, 'sp-api-cron');
\* a rejected upsert ends the run in the outer catch
RunUpsertSales(r) ==
    /\ runs[r].pc = "upsertSales"
    /\ \E ok \in BOOLEAN :
        IF ok
        THEN /\ salesTable' = upsertSalesRows(salesTable, uniqueByDate(feed.metrics, << >>), r)
             /\ runs' = [runs EXCEPT ![r].pc = "fetchOrders"]
        ELSE /\ runs' = [runs EXCEPT ![r] = [pc |-> "done", rejected |-> TRUE]]
             /\ UNCHANGED salesTable
    /\ UNCHANGED <<rest, ordersTable>>

\* 9. getOrdersData: a failure, or no orders, leaves the orders table alone
RunFetchOrders(r) ==
    /\ runs[r].pc = "fetchOrders"
    /\ runs' = [runs EXCEPT ![r].pc = IF feed.ordersFail \/ feed.orders = << >>
                                      THEN "done" ELSE "upsertOrders"]
    /\ UNCHANGED <<rest, salesTable, ordersTable>>

\* 9. await supabaseService.upsertOrdersData(ordersResult.orders, 'sp-api-cron');
\* a rejected upsert is swallowed by the inner catch
RunUpsertOrders(r) ==
    /\ runs[r].pc = "upsertOrders"
    /\ \E ok \in BOOLEAN :
        IF ok
        THEN /\ ordersTable' = upsertOrderRows(ordersTable, feed.orders, r)
             /\ runs' = [runs EXCEPT ![r].pc = "done"]
        ELSE /\ runs' = [runs EXCEPT ![r] = [pc |-> "done", rejected |-> TRUE]]
             /\ UNCHANGED ordersTable
    /\ UNCHANGED <<rest, salesTable>>

RerunNext ==
    \/ \E r \in Runs : RunFetchSales(r)
    \/ \E r \in Runs : RunUpsertSales(r)
    \/ \E r \in Runs : RunFetchOrders(r)
    \/ \E r \in Runs : RunUpsertOrders(r)

SpecRerun == RerunInit /\ [][RerunNext]_vars

(***************************************************************************)
(* SupabaseService called directly: upsertAdsData, batchUpsert, and        *)
(* upsertSalesData, the last one called several times with one array and   *)
(* by sales runs of different granularities.  A payload of `sent` holds    *)
(* the records of uniqueData, from which transformedData is built one to   *)
(* one.                                                                    *)
(***************************************************************************)
ServiceOps == {"upsertAdsData", "batchUpsert", "upsertSalesData", "ingestSales"}

CampaignIds == {"c1", "c2"}
UpdateTimes == 1..2

\* campaign records: getCampaignsData builds them with last_updated and
\* without updated_at (<< >>); a record may also carry updated_at: <<t>>
AdsRecords ==
    UNION { { [campaign_id |-> c, updated_at |-> u, last_updated |-> t] :
                c \in CampaignIds, u \in {<< >>, <<t>>} } : t \in UpdateTimes }

\* batchUpsert(tableName, data, conflictColumns, batchSize = 100)
BatchSizes == {1, 2, 100}
BatchData == { [i \in 1..n |-> [id |-> i]] : n \in 0..(MaxBatch + 1) }

Granularities == {"Daily", "Weekly"}

\* the sales runs: each with its granularity parameter and the metrics it fetched
IngestRuns ==
    [1..NCalls -> [granularity : Granularities,
                   metrics : {<<m>> : m \in MetricRecords}]]

ArgsOf(o) ==
    CASE o = "upsertAdsData" -> [adsData : SeqsUpTo(AdsRecords, MaxBatch)]
      [] o = "batchUpsert" -> [data : BatchData, batchSize : BatchSizes]
      [] o = "upsertSalesData" -> [salesData : SeqsUpTo(MetricRecords, MaxBatch)]
      [] o = "ingestSales" -> [runs : IngestRuns]

\* the array the call works on
arrayOf(o, a) ==
    CASE o = "upsertAdsData" -> a.adsData
      [] o = "batchUpsert" -> a.data
      [] o = "upsertSalesData" -> a.salesData
      [] o = "ingestSales" -> << >>

\* new Date(record.updated_at) > new Date(existing.updated_at): a comparison
\* with the Invalid Date of a missing updated_at is false
newerThan(record, existing) ==
    /\ record.updated_at # << >>
    /\ existing.updated_at # << >>
    /\ record.updated_at[1] > existing.updated_at[1]

RECURSIVE indexOfCampaign(_, _, _)
indexOfCampaign(unique, id, i) ==
    IF i > Len(unique) THEN 0
    ELSE IF unique[i].campaign_id = id THEN i
    ELSE indexOfCampaign(unique, id, i + 1)

\* uniqueDataMap of upsertAdsData: the first record of a campaign is kept
\* unless a later one compares as newer
RECURSIVE uniqueByCampaign(_, _)
uniqueByCampaign(records, unique) ==
    IF records = << >> THEN unique
    ELSE LET record == Head(records)
             k == indexOfCampaign(unique, record.campaign_id, 1)
         IN uniqueByCampaign(Tail(records),
                IF k = 0 THEN Append(unique, record)
                ELSE IF newerThan(record, unique[k]) THEN [unique EXCEPT ![k] = record]
                ELSE unique)

\* .upsert(payload, { onConflict: ... }): per conflict key the row is inserted
\* or replaced; keys[i] is the conflict key of payload[i]
putRows(table, payload, keys) ==
    [k \in DOMAIN table \cup {keys[i] : i \in DOMAIN keys} |->
        IF \E i \in DOMAIN keys : keys[i] = k
        THEN payload[CHOOSE i \in DOMAIN keys :
                        keys[i] = k /\ \A j \in DOMAIN keys : keys[j] = k => j <= i]
        ELSE table[k]]

\* the salesData array after the forEach of upsertSalesData: uniqueDataMap
\* holds the first record of a date itself, and the sums are written into it
mergedInPlace(records) ==
    LET unique == uniqueByDate(records, << >>) IN
    [i \in DOMAIN records |->
        IF indexOf(records, records[i].date, 1) = i
        THEN unique[indexOf(unique, records[i].date, 1)]
        ELSE records[i]]

\* mapGranularityToSPAPI(granularity)
mapGranularityToSPAPI(g) ==
    CASE g \in {"Daily", "Day"} -> "Day"
      [] g \in {"Weekly", "Week"} -> "Week"
      [] OTHER -> "Day"

\* marketplace_id: 'ATVPDKIKX0DER' and granularity: 'Day' of transformedData
salesKey(record) == <<record.date, "ATVPDKIKX0DER", "Day">>

salesKeys(payload) == [i \in DOMAIN payload |-> salesKey(payload[i])]
salesRows(payload, stamp) == [i \in DOMAIN payload |-> transformSales(payload[i], stamp)]

ServiceInit ==
    /\ now = 0
    /\ LimiterIdle
    /\ TokenIdle
    /\ SalesIdle
    /\ HandlerIdle
    /\ StoreIdle
    /\ op \in ServiceOps
    /\ args \in ArgsOf(op)
    /\ data = arrayOf(op, args)
    /\ cursor = 0
    /\ sent = << >>
    /\ rows = << >>
    /\ outcome = "ready"

elsewhere == <<now, limiterVars, tokenVars, salesVars, handlerVars, storeVars, op, args>>

\* upsertAdsData(adsData): nothing is sent for an empty array; otherwise the
\* deduplicated records are upserted on campaign_id,user_id
UpsertAdsData ==
    /\ op = "upsertAdsData"
    /\ outcome = "ready"
    /\ IF data = << >>
       THEN /\ outcome' = "returned"
            /\ UNCHANGED <<sent, rows>>
       ELSE \E ok \in BOOLEAN :
            LET uniqueData == uniqueByCampaign(data, << >>) IN
            /\ sent' = Append(sent, [payload |-> uniqueData, ok |-> ok])
            /\ rows' = IF ok
                       THEN putRows(rows, uniqueData,
                                    [i \in DOMAIN uniqueData |-> uniqueData[i].campaign_id])
                       ELSE rows
            /\ outcome' = IF ok THEN "returned" ELSE "threw"
    /\ cursor' = cursor + 1
    /\ UNCHANGED <<elsewhere, data>>

\* one turn of the loop of batchUpsert: the batch data.slice(i, i + batchSize)
\* is upserted; a rejected batch is thrown on
BatchUpsertStep ==
    /\ op = "batchUpsert"
    /\ outcome = "ready"
    /\ cursor < Len(data)
    /\ LET batch == SubSeq(data, cursor + 1, Min(cursor + args.batchSize, Len(data))) IN
       \E ok \in BOOLEAN :
         /\ sent' = Append(sent, [payload |-> batch, ok |-> ok])
         /\ IF ok
            THEN /\ rows' = putRows(rows, batch, [i \in DOMAIN batch |-> batch[i].id])
                 /\ cursor' = cursor + args.batchSize
                 /\ UNCHANGED outcome
            ELSE /\ outcome' = "threw"
                 /\ UNCHANGED <<rows, cursor>>
    /\ UNCHANGED <<elsewhere, data>>

\* the loop of batchUpsert is over: return results
BatchUpsertReturn ==
    /\ op = "batchUpsert"
    /\ outcome = "ready"
    /\ cursor >= Len(data)
    /\ outcome' = "returned"
    /\ UNCHANGED <<elsewhere, data, cursor, sent, rows>>

\* upsertSalesData(salesData) called with the caller's array: the duplicates
\* of a date are merged, then the rows are upserted on
\* date,marketplace_id,granularity
UpsertSalesData ==
    /\ op = "upsertSalesData"
    /\ outcome = "ready"
    /\ cursor < NCalls
    /\ IF data = << >>
       THEN UNCHANGED <<data, sent, rows, outcome>>
       ELSE \E ok \in BOOLEAN :
            LET uniqueData == uniqueByDate(data, << >>) IN
            /\ data' = mergedInPlace(data)
            /\ sent' = Append(sent, [payload |-> uniqueData, ok |-> ok])
            /\ rows' = IF ok
                       THEN putRows(rows, salesRows(uniqueData, cursor + 1),
                                    salesKeys(uniqueData))
                       ELSE rows
            /\ outcome' = IF ok THEN "ready" ELSE "threw"
    /\ cursor' = cursor + 1
    /\ UNCHANGED elsewhere

\* a sales run: its granularity parameter goes to getSalesData, and the
\* metrics it fetched go to upsertSalesData(salesResult.metrics, 'sp-api-cron')
IngestSales ==
    /\ op = "ingestSales"
    /\ outcome = "ready"
    /\ cursor < Len(args.runs)
    /\ LET run == args.runs[cursor + 1]
           uniqueData == uniqueByDate(run.metrics, << >>)
       IN \E ok \in BOOLEAN :
            /\ data' = mergedInPlace(run.metrics)
            /\ sent' = Append(sent, [payload |-> uniqueData, ok |-> ok])
            /\ rows' = IF ok
                       THEN putRows(rows, salesRows(uniqueData, cursor + 1),
                                    salesKeys(uniqueData))
                       ELSE rows
    /\ cursor' = cursor + 1
    /\ outcome' = IF cursor' = Len(args.runs) THEN "returned" ELSE "ready"
    /\ UNCHANGED elsewhere

ServiceNext ==
    \/ UpsertAdsData
    \/ BatchUpsertStep
    \/ BatchUpsertReturn
    \/ UpsertSalesData
    \/ IngestSales

SpecService == ServiceInit /\ [][ServiceNext]_vars

(***************************************************************************)
(* Claims about the rate limiter.                                          *)
(***************************************************************************)
CalledAt(i) == hist[i][1]
DueAt(i) == hist[i][2]
ReturnedAt(i) == hist[i][3]
\* the first k calls that returned were all issued at one instant
SameInstant(k) == \A i \in 1..k : CalledAt(i) = CalledAt(1)

\* C3: for one caller issuing waitForToken() calls back to back, the number of
\* calls that return within any window of length T is at most
\* capacity + rate * T, up to one call of rounding.
C3_GrantRateBounded ==
    active = 1 =>
        \A i, j \in 1..Len(hist) :
            i <= j =>
                (j - i + 1) <= maxBurst
                    + CeilDiv(requestsPerSecond * (ReturnedAt(j) - ReturnedAt(i)), 1000) + 1

\* C4: in every reachable state of a limiter, whatever the interleaving of
\* waitForToken(), hasTokens(), getTokenCount() and timer wake-ups of its
\* concurrent callers, 0 <= tokens <= capacity.
C4_TokensInRange == 0 <= tokens /\ tokens <= maxBurst * Milli

C4_Witness ==
    /\ active = NCallers
    /\ \A c \in Callers : Waiting(c)
    /\ \E i \in 1..Len(hist) : ReturnedAt(i) > CalledAt(i)
    /\ probe.op = "getTokenCount"

\* C5: every waitForToken() call returns: a caller that found no token has a
\* timer due at most ceil(1000/rate) ms after its call, and it does return.
C5_EveryCallReturns ==
    /\ [](\A c \in Callers :
            Waiting(c) =>
                callers[c].wakeAt - callers[c].calledAt <= CeilDiv(1000, requestsPerSecond))
    /\ \A c \in Callers : Waiting(c) ~> ~Waiting(c)

C5_Witness ==
    /\ active = NCallers
    /\ variant = "sp"
    /\ Cardinality({i \in 1..Len(hist) : ReturnedAt(i) > CalledAt(i)}) >= 2

\* C6: from a full bucket, with no time passing between the calls, the first
\* `capacity` calls return at once and the next one is held by a timer of
\* ceil(1000/rate) ms.
C6_BurstThenWait ==
    /\ \A k \in 1..Len(hist) :
          (k <= maxBurst /\ SameInstant(k)) => ReturnedAt(k) = CalledAt(k)
    /\ (Len(hist) > maxBurst /\ SameInstant(maxBurst + 1)) =>
          /\ DueAt(maxBurst + 1) - CalledAt(maxBurst + 1) = CeilDiv(1000, requestsPerSecond)
          /\ ReturnedAt(maxBurst + 1) >= DueAt(maxBurst + 1)
    /\ \A c \in Callers :
          (Waiting(c) /\ Len(hist) = maxBurst /\ SameInstant(maxBurst)
                /\ callers[c].calledAt = CalledAt(1)) =>
             callers[c].wakeAt = callers[c].calledAt + CeilDiv(1000, requestsPerSecond)

C6_Witness ==
    /\ variant = "sp"
    /\ requestsPerSecond = 1
    /\ maxBurst = 5
    /\ Len(hist) = 6
    /\ SameInstant(6)
    /\ CalledAt(1) = 0
    /\ ReturnedAt(5) = 0
    /\ ReturnedAt(6) - CalledAt(6) = 1000

\* a step that runs the refill: a waitForToken() call, or a hasTokens() or
\* getTokenCount() call whose answer is new
CallStep == Issued' > Issued
ProbeStep == probe' # probe

\* C25: every call that runs the refill leaves lastRefill at the current time,
\* and hasTokens() and getTokenCount() leave tokens at
\* min(capacity, tokens + elapsed * rate).
C25_RefillOnEveryCall ==
    [][(CallStep \/ ProbeStep) =>
          /\ lastRefill' = now
          /\ ProbeStep =>
                tokens' = Min(maxBurst * Milli, tokens + (now - lastRefill) * requestsPerSecond)]_vars

(***************************************************************************)
(* Claims about the access-token cache.                                    *)
(***************************************************************************)
SecretAbsent == ~creds.clientId \/ ~creds.clientSecret \/ ~creds.refreshToken

\* C7: a cached token is returned only while now < expiresAt, where
\* expiresAt = time of the exchange + expires_in - 60 s; a request at or after
\* expiresAt is not served from the cache but by a fresh exchange, whose token
\* replaces the cache entry.
C7_CachedOnlyWhileFresh ==
    /\ (Len(cache) = 1 /\ ~cache[1].nan) =>
          cache[1].expires = cache[1].at + cache[1].expiresIn * 1000 - 60000
    /\ \A q \in Requesters :
          /\ reqs[q].source = "cache" => reqs[q].startedAt < reqs[q].servedExpires
          /\ (reqs[q].pc = "returned" /\ reqs[q].source = "exchange" /\ reqs[q].token # 0) =>
                /\ Len(cache) = 1
                /\ cache[1].at >= reqs[q].startedAt
                /\ ~cache[1].nan => cache[1].token >= reqs[q].token

C7_Witness ==
    \E q1, q2 \in Requesters :
        /\ reqs[q1].source = "cache"
        /\ reqs[q1].startedAt = 999
        /\ reqs[q1].servedExpires = 1000
        /\ reqs[q2].pc = "returned"
        /\ reqs[q2].source = "exchange"
        /\ reqs[q2].startedAt = 1000
        /\ reqs[q2].token = 2

\* C8: getLWAAccessToken() fails with a missing-credentials error, without a
\* POST to the token endpoint and without touching the cache, whenever the
\* client id, the client secret or the refresh token is absent; and when the
\* endpoint answers with a non-success status it fails with a token-exchange
\* error and leaves the cache as it was.
C8_TokenFailures ==
    [][client = "sp" =>
        \A q \in Requesters :
            /\ (reqs[q].pc # "fetching" /\ reqs'[q] # reqs[q] /\ SecretAbsent) =>
                  /\ reqs'[q].pc = "threw"
                  /\ reqs'[q].error = "missingCredentials"
                  /\ posts' = posts
                  /\ cache' = cache
            /\ (reqs[q].pc = "fetching" /\ reqs'[q].error = "tokenExchange") =>
                  cache' = cache]_vars

(***************************************************************************)
(* Claims about getSalesData.                                              *)
(***************************************************************************)
RECURSIVE SumOver(_, _)
SumOver(I, f) ==
    IF I = {} THEN 0
    ELSE LET i == CHOOSE x \in I : TRUE IN f[i] + SumOver(I \ {i}, f)

Raw == response.payload
RawIdx == 1..Len(Raw)
\* the line items whose interval starts on date d
StartingOn(d) == {i \in RawIdx : Raw[i].interval # << >> /\ Raw[i].interval[1] = d}
\* the same, a line item without an interval counting for the requested start date
CountedFor(d) == StartingOn(d) \cup {i \in RawIdx : Raw[i].interval = << >> /\ d = StartDate}

UnitsOf == [i \in RawIdx |-> Raw[i].vol.unitCount]
OrderItemsOf == [i \in RawIdx |-> Raw[i].vol.orderItemCount]
AmountOf == [i \in RawIdx |-> Raw[i].vol.amount]

Returned == salesPc = "done" /\ result.status = "returned"
OneRecordPerDate ==
    \A i, j \in 1..Len(result.metrics) :
        result.metrics[i].date = result.metrics[j].date => i = j
SumsOver(m, I) ==
    /\ m.units_ordered = SumOver(I, UnitsOf)
    /\ m.total_order_items = SumOver(I, OrderItemsOf)
    /\ m.ordered_product_sales = SumOver(I, AmountOf)

\* C9: at most one record per date, and each record's units_ordered,
\* total_order_items and ordered_product_sales are the sums of unitCount,
\* orderItemCount and totalSales.amount over the raw line items of the record's
\* date: the date their interval starts on, a line item without an interval
\* being taken under the requested start date as the grouping does.
C9_SumsPerDate ==
    Returned =>
        /\ OneRecordPerDate
        /\ \A k \in 1..Len(result.metrics) :
              SumsOver(result.metrics[k], CountedFor(result.metrics[k].date))

\* C10: no returned record has units_ordered, total_order_items and
\* ordered_product_sales all zero; a date whose summed volume fields are all
\* zero has no record, its line items being counted in totalRecordsProcessed only.
C10_ZeroGroupsDropped ==
    Returned =>
        /\ \A k \in 1..Len(result.metrics) :
              ~(/\ result.metrics[k].units_ordered = 0
                /\ result.metrics[k].total_order_items = 0
                /\ result.metrics[k].ordered_product_sales = 0)
        /\ \A d \in Dates :
              (/\ CountedFor(d) # {}
               /\ SumOver(CountedFor(d), UnitsOf) = 0
               /\ SumOver(CountedFor(d), OrderItemsOf) = 0
               /\ SumOver(CountedFor(d), AmountOf) = 0) =>
                 \A k \in 1..Len(result.metrics) : result.metrics[k].date # d
        /\ result.totalRecordsProcessed = Len(Raw)
        /\ result.nonZeroRecords = Len(result.metrics)

C10_Witness ==
    /\ Returned
    /\ Len(Raw) = 3
    /\ Raw[1].interval = <<"2024-01-01", "00:00Z">> /\ Raw[1].vol.unitCount = 3
    /\ Raw[2].interval = <<"2024-01-01", "12:00Z">> /\ Raw[2].vol.unitCount = 3
    /\ Raw[3].interval = <<"2024-01-02", "00:00Z">> /\ Raw[3].vol.unitCount = 0
    /\ Raw[3].vol.orderItemCount = 0 /\ Raw[3].vol.amount = 0
    /\ Len(result.metrics) = 1
    /\ result.metrics[1].date = "2024-01-01"
    /\ result.metrics[1].units_ordered = 6
    /\ result.metrics[1].ordered_product_sales = 60
    /\ result.totalRecordsProcessed = 3

InvalidStructure == "SP-API returned invalid response structure"

\* C11: when the upstream answers the metrics request with success and the
\* body has no payload array (payload missing, null or not an array),
\* getSalesData throws the invalid-response error and returns no metrics
\* list; with an empty payload array it returns an empty metrics list.
C11_InvalidPayloadRejected ==
    (salesPc = "done" /\ hasClientId /\ response.status = 200) =>
        /\ response.body \in {"missing", "null", "notArray"} =>
              /\ result.status = "threw"
              /\ result.error = InvalidStructure
        /\ (response.body = "array" /\ response.payload = << >>) =>
              /\ result.status = "returned"
              /\ result.metrics = << >>
              /\ result.totalRecordsProcessed = 0

\* a success answer whose payload is not an array has been rejected
C11_Witness ==
    /\ salesPc = "done"
    /\ response.status = 200
    /\ response.body = "notArray"
    /\ result.status = "threw"
    /\ result.error = InvalidStructure

(***************************************************************************)
(* Claims about the cron handlers.                                         *)
(***************************************************************************)
\* the x-cron-secret header is missing or differs from the configured secret
BadSecret == req.secret = "absent" \/ req.secret # cronSecretEnv

\* C1: a request whose x-cron-secret header is missing or differs from the
\* configured secret is answered 401, by either handler, and the run acquires
\* no rate-limiter token, sends nothing upstream, upserts no row and issues
\* no log write.
C1_UnauthorizedTouchesNothing ==
    BadSecret =>
        /\ hpc \in {"start", "done"}
        /\ hpc = "done" => res.status = 401
        /\ acquired = 0
        /\ upstream = [token |-> 0, data |-> 0]
        /\ written = [sales |-> 0, orders |-> 0, ads |-> 0]
        /\ logCalls = << >>
        /\ ingestionLogs = << >>

\* an ads request with a wrong, non-empty secret has been answered 401
C1_Witness ==
    /\ kind = "ads"
    /\ cronSecretEnv = "s3cret"
    /\ req.secret = "wrong"
    /\ hpc = "done"
    /\ res.status = 401

Terminal(status) == status \in {"completed", "failed"}
\* the positions of the run's log writes that are terminal
TerminalWrites == {i \in DOMAIN logCalls : Terminal(logCalls[i].status)}
WroteStarted == \E i \in DOMAIN logCalls : logCalls[i].status = "started"

\* C2: a run that has written a 'started' log entry writes exactly one
\* terminal log entry after it ('completed' or 'failed', never both) and no
\* log entry after the terminal one.  A log entry counts as written when the
\* run issues the insert.
C2_ExactlyOneTerminalEntry ==
    WroteStarted =>
        /\ Cardinality(TerminalWrites) <= 1
        /\ \A i \in TerminalWrites : i = Len(logCalls)
        /\ hpc = "done" => Cardinality(TerminalWrites) = 1

\* what getSalesData throws
SalesFetchErrors ==
    {"SP-API: Missing credentials for sales data", "Missing LWA credentials",
     "LWA token request failed", "SP-API rate limit exceeded", "SP-API request failed",
     "SP-API returned invalid response structure"}
\* the sales fetch of the run threw
SalesFetchFailed == kind = "sales" /\ caught \in SalesFetchErrors
LastLogWrite == logCalls[Len(logCalls)].status

\* C13: when the sales metrics fetch of an authenticated sales run throws, the
\* run issues a 'failed' log write and answers 500; it upserts no sales row,
\* fetches no orders, upserts no order, and persists no substitute data.
C13_FetchFailureFailsRun ==
    SalesFetchFailed =>
        /\ hpc \in {"logFetchFailed", "respondFetchFailed", "done"}
        /\ written = [sales |-> 0, orders |-> 0, ads |-> 0]
        /\ fetched = NothingFetched
        /\ acquired = 1
        /\ upstream.data <= 1
        /\ hpc \in {"respondFetchFailed", "done"} =>
              /\ LastLogWrite = "failed"
              /\ Cardinality(TerminalWrites) = 1
        /\ hpc = "done" => res.status = 500

\* a sales run whose upstream request failed has logged it and answered 500
C13_Witness ==
    /\ kind = "sales"
    /\ caught = "SP-API request failed"
    /\ hpc = "done"
    /\ res.status = 500
    /\ ingestionLogs = <<"started", "failed">>
    /\ upstream = [token |-> 1, data |-> 1]

\* C14: when the upstream rejects the request of a sales run with HTTP 429, the
\* sales trigger answers 429 ('Rate limit exceeded', with a retryAfter hint),
\* after a 'failed' log write.
C14_RateLimitAnswered429 ==
    (kind = "sales" /\ caught = "SP-API rate limit exceeded" /\ hpc = "done") =>
        /\ res.status = 429
        /\ res.error = "Rate limit exceeded"
        /\ LastLogWrite = "failed"

MissingCredentialErrors ==
    {"SP-API: Missing credentials for sales data", "Missing LWA credentials"}

\* C15: when a sales run fails because required API credentials are missing,
\* the sales trigger answers 500 tagged 'Configuration error', after a 'failed'
\* log write.
C15_MissingCredentialsTagged ==
    (kind = "sales" /\ caught \in MissingCredentialErrors /\ hpc = "done") =>
        /\ res.status = 500
        /\ res.error = "Configuration error"
        /\ LastLogWrite = "failed"

OrdersStepFailed == kind = "sales" /\ fetched.ordersStep \in {"fetchFailed", "upsertFailed"}

\* C16: in a sales run whose sales fetch and sales upsert succeeded, a failure
\* of the orders fetch or of the orders upsert does not fail the run: it goes
\* on to a 'completed' log write and a 200 answer, no order row is written
\* and the sales rows written before are kept.
C16_OrdersFailureNotFatal ==
    OrdersStepFailed =>
        /\ hpc \in {"logCompleted", "respond", "done"}
        /\ caught = "none"
        /\ written.orders = 0
        /\ written.sales = fetched.records
        /\ fetched.records > 0
        /\ hpc \in {"respond", "done"} =>
              /\ LastLogWrite = "completed"
              /\ Cardinality(TerminalWrites) = 1
        /\ hpc = "done" => (res.status = 200 /\ res.error = "none")

\* the orders upsert of a sales run was rejected and the run answered 200
C16_Witness ==
    /\ kind = "sales"
    /\ fetched.ordersStep = "upsertFailed"
    /\ fetched.orders = 2
    /\ written = [sales |-> 2, orders |-> 0, ads |-> 0]
    /\ hpc = "done"
    /\ res.status = 200
    /\ ingestionLogs = <<"started", "completed">>

StrictDates == {"valid", "expanded", "yesterday"}

PastParsing == kind = "sales" /\ hpc \notin {"start", "parse"} /\ res.status \notin {401, 405}

\* C17: once a sales run has parsed its parameters, its start and end dates
\* match YYYY-MM-DD (a placeholder expanded, a date failing validation
\* replaced by yesterday's date), and no date parameter has failed the run.
C17_DatesStrictOrYesterday ==
    PastParsing =>
        /\ range.startDate \in StrictDates
        /\ range.endDate \in StrictDates
        /\ caught # "TypeError"

AdsRunDone ==
    /\ kind = "ads"
    /\ authorized(req.secret, cronSecretEnv)
    /\ methodAllowed(req.method)
    /\ hpc = "done"

AdsCredentialsSet == env.clientId /\ env.clientSecret /\ env.refreshToken

\* C18: an authenticated ads run in which the upstream answered 401 or 403
\* (and the store rejected nothing) ends with the answer 401 'Authentication
\* failed' and a 'failed' log write.
C18_AuthFailureAnswered401 ==
    (AdsRunDone /\ mentionsAuthStatus(fetched.swallowed) /\ caught # "store error") =>
        /\ res.status = 401
        /\ res.error = "Authentication failed"
        /\ LastLogWrite = "failed"

\* C19: when a call of getCampaignsData failed (token refresh, campaign list
\* or report request), no substitute data is returned and the run writes no
\* campaign row.
C19_NoSubstituteCampaigns ==
    (kind = "ads" /\ fetched.swallowed # "none") =>
        /\ fetched.source # "mock"
        /\ fetched.records = 0
        /\ written.ads = 0

\* C20: an authenticated ads run without the client id, the client secret or
\* the refresh token ends with the answer 500 and a 'failed' log write, and
\* writes no campaign row.
C20_MissingAdsCredentialsFail ==
    (AdsRunDone /\ ~AdsCredentialsSet) =>
        /\ res.status = 500
        /\ LastLogWrite = "failed"
        /\ written.ads = 0

\* C22: every response carries the elapsed duration, and the log identifier
\* whenever the 'started' log write returned one.
C22_EveryResponseTimed ==
    hpc = "done" =>
        /\ res.duration
        /\ logId => res.logId

LogStep == Len(logCalls') = Len(logCalls) + 1

Accepted200 == authorized(req.secret, cronSecretEnv) /\ methodAllowed(req.method) /\ caught = "none"

\* C23: a log write, accepted or rejected, throws nothing and touches nothing
\* but the log: the run goes on to its next step with the error it caught,
\* the rows it wrote and its response unchanged; and the run answers 200
\* exactly when it was accepted and no step other than a log write failed.
C23_LogFailureChangesNothing ==
    /\ [](hpc = "done" => (res.status = 200 <=> Accepted200))
    /\ [][LogStep => /\ hpc' # "catch"
                     /\ caught' = caught
                     /\ written' = written
                     /\ fetched' = fetched
                     /\ upstream' = upstream
                     /\ res' = res]_vars

\* a sales run of which every log write was rejected wrote its rows and
\* answered 200 without a log identifier
C23_Witness ==
    /\ kind = "sales"
    /\ hpc = "done"
    /\ logCalls = <<[status |-> "started", ok |-> FALSE], [status |-> "completed", ok |-> FALSE]>>
    /\ written.sales = 2
    /\ res = [status |-> 200, error |-> "none", duration |-> TRUE, logId |-> FALSE]

TerminalCalled == \E i \in DOMAIN logCalls : logCalls[i].status \in {"completed", "failed"}

Responding == {"respond", "respondEmpty", "respondFetchFailed", "respondError", "done"}

\* C24: in a sales run the token is acquired before the sales request is
\* issued, the sales fetch has returned records before the sales upsert, the
\* sales upsert is done before the second acquisition and the orders request,
\* the rows are written before the terminal log write, after which only the
\* response follows, and the response is sent after the terminal log write.
C24_StepsSequential ==
    kind = "sales" =>
        /\ upstream.data <= acquired
        /\ upstream.data + upstream.token > 0 => acquired >= 1
        /\ written.sales > 0 => (fetched.source = "real" /\ written.sales = fetched.records)
        /\ acquired >= 2 => written.sales > 0
        /\ written.orders > 0 => (upstream.data = 2 /\ written.orders = fetched.orders)
        /\ TerminalCalled => hpc \in Responding
        /\ (hpc = "done" /\ res.status \notin {401, 405}) => TerminalCalled

\* a sales run that took every step: two acquisitions, two requests, both
\* upserts, the two log writes and the 200
C24_Witness ==
    /\ kind = "sales"
    /\ hpc = "done"
    /\ acquired = 2
    /\ upstream.data = 2
    /\ written = [sales |-> 1, orders |-> 2, ads |-> 0]
    /\ ingestionLogs = <<"started", "completed">>
    /\ res.status = 200

\* C28: a 'completed' or 'failed' log write of a run comes after the run's
\* 'started' log write.
C28_TerminalAfterStarted ==
    \A i \in DOMAIN logCalls :
        logCalls[i].status \in {"completed", "failed"} =>
            \E j \in 1..(i - 1) : logCalls[j].status = "started"

\* C30: the upstream data requests a run has issued are at most as many as
\* the limiter tokens it has acquired.
C30_RequestsCoveredByTokens == upstream.data <= acquired

(***************************************************************************)
(* Claims about repeated sales runs.                                       *)
(***************************************************************************)
\* the keys and the metric values of the tables, without the time stamps
SalesValues(table) == [d \in Dates |-> [table[d] EXCEPT !.created_at = 0]]
OrderValues(table) == [o \in OrderIds |-> [table[o] EXCEPT !.updated_at = 0]]

\* the tables one run leaves when it starts from an empty store and the store
\* accepts its writes
OnceSales ==
    upsertSalesRows([d \in Dates |-> NoRow], uniqueByDate(feed.metrics, << >>), 0)
OnceOrders ==
    IF feed.metrics = << >> \/ feed.ordersFail THEN [o \in OrderIds |-> NoOrder]
    ELSE upsertOrderRows([o \in OrderIds |-> NoOrder], feed.orders, 0)

AllDone == \A r \in Runs : runs[r].pc = "done"
Accepted == \A r \in Runs : ~runs[r].rejected

\* C12: sales runs given the same upstream answers and the same parameters,
\* started on an empty store and run one after the other or interleaved,
\* leave the metric and the order table with the keys and metric values one
\* run leaves: at every moment each table is empty or holds what one run
\* writes, and when all runs have ended with their writes accepted both
\* tables hold exactly that.
C12_RerunLeavesSameState ==
    /\ SalesValues(salesTable) \in {SalesValues([d \in Dates |-> NoRow]), SalesValues(OnceSales)}
    /\ OrderValues(ordersTable) \in {OrderValues([o \in OrderIds |-> NoOrder]),
                                      OrderValues(OnceOrders)}
    /\ (AllDone /\ Accepted) =>
          /\ SalesValues(salesTable) = SalesValues(OnceSales)
          /\ OrderValues(ordersTable) = OrderValues(OnceOrders)

\* two runs have both written the same two dates and the same two orders
C12_Witness ==
    /\ AllDone
    /\ Accepted
    /\ Len(feed.metrics) = 2
    /\ Len(feed.orders) = 2
    /\ ~feed.ordersFail
    /\ \E d \in Dates : salesTable[d].created_at = 1
    /\ \E d \in Dates : salesTable[d].created_at = 2 \/ ordersTable["o1"].updated_at = 2

(***************************************************************************)
(* Claims about the store service.                                         *)
(***************************************************************************)
\* C21: the records upsertAdsData sends hold each campaign id of the batch
\* exactly once, and the record retained for a campaign id is updated no
\* earlier than any record of that id in the batch.
C21_DuplicatesKeepMostRecent ==
    (op = "upsertAdsData" /\ sent # << >>) =>
        LET payload == sent[1].payload
            batch == args.adsData
        IN /\ \A j \in DOMAIN batch :
                Cardinality({i \in DOMAIN payload :
                                payload[i].campaign_id = batch[j].campaign_id}) = 1
           /\ \A i \in DOMAIN payload, j \in DOMAIN batch :
                batch[j].campaign_id = payload[i].campaign_id =>
                    batch[j].last_updated <= payload[i].last_updated

\* the dates that two accepted runs of different granularities both wrote
SharedDates ==
    { d \in Dates :
        \E i, j \in DOMAIN sent :
            /\ i < j
            /\ sent[i].ok /\ sent[j].ok
            /\ mapGranularityToSPAPI(args.runs[i].granularity)
                 # mapGranularityToSPAPI(args.runs[j].granularity)
            /\ \E m \in DOMAIN sent[i].payload : sent[i].payload[m].date = d
            /\ \E m \in DOMAIN sent[j].payload : sent[j].payload[m].date = d }

\* C26: a date ingested by two sales runs of different granularities has two
\* rows in the table, one of each run.
C26_RowPerGranularity ==
    op = "ingestSales" =>
        \A d \in SharedDates :
            /\ Cardinality({k \in DOMAIN rows : k[1] = d}) >= 2
            /\ \A i \in DOMAIN sent :
                  (sent[i].ok /\ \E m \in DOMAIN sent[i].payload : sent[i].payload[m].date = d) =>
                     \E k \in DOMAIN rows : k[1] = d /\ rows[k].created_at = i

\* C27: when batchUpsert throws, none of the records of the call is in the table.
C27_BatchUpsertAllOrNothing ==
    (op = "batchUpsert" /\ outcome = "threw") => DOMAIN rows = {}

\* C29: upsertSalesData leaves the caller's array as it was handed over, and
\* every call with that array sends the same records.
C29_InputLeftUnchanged ==
    op = "upsertSalesData" =>
        /\ data = args.salesData
        /\ \A i, j \in DOMAIN sent : sent[i].payload = sent[j].payload

====
